---- MODULE Spec2Model ----
(***************************************************************************)
(* Mockr: the live route table, its hot-reload pipeline, the per-request   *)
(* middleware chain, the debounced config watcher and the token bucket.    *)
(*                                                                         *)
(* A URL path is the sequence of its segments after the leading slash:     *)
(*   "/ping" = <<"ping">>, "/" = <<"">>, "/api/" = <<"api", "">>, "" = <<>> *)
(* so that the subtree patterns of http.ServeMux (patterns ending in "/")  *)
(* can be told from exact ones.                                            *)
(***************************************************************************)
EXTENDS Integers, Sequences, FiniteSets, TLC

\* ------------------------------------------------------------------ bounds
MaxRequests == 2      \* connections handled concurrently
MaxReloadRequests == 1 \* connections handled concurrently while reloads run
MaxReloaders == 1     \* debounce-timer callbacks running concurrently
MaxOverlap == 2       \* the same, where reloads are allowed to overlap
MaxEvents == 1        \* capacity of the watcher's event queue
MaxTimers == 2        \* timers the runtime can hold at once
MaxBurst == 1         \* largest -burst flag value tried
MaxErrors == 1        \* capacity of the watcher's error queue

\* ------------------------------------------------------- program constants
BodyLimit == 1048576      \* 1<<20, server.go:100
MaxDelay == 30000         \* config.go:118
MinStatus == 100          \* config.go:108
MaxStatus == 599          \* config.go:108
DefaultStatus == 200      \* config.go:78, server.go:245

\* Time is counted in clock ticks. The debounce window (200 ms, main.go:253) is
\* Window ticks long; the limiter refills one token every TicksPerToken ticks
\* (1/R seconds), so tokens are counted in units of 1/TicksPerToken token.
Window == 2
TicksPerToken == 2

\* the watcher's grace window (2 s, main.go:155) and the shutdown timeout (10 s,
\* main.go:160), in ticks
GraceTicks == 2
DrainTicks == 2

\* ------------------------------------------------------------------- paths
PathPing == <<"ping">>
PathOld == <<"old">>
PathNew == <<"new">>
PathBad == <<"bad">>
PathHealth == <<"health">>
PathRoot == <<"">>
PathMissing == <<"missing">>
PathPingSub == <<"ping", "x">>
PathApi == <<"api", "">>
PathApiSub == <<"api", "x">>

NoRoute == [method |-> "", status |-> 0, delay |-> 0, response |-> "null"]

Rt(m, s, d, r) == [method |-> m, status |-> s, delay |-> d, response |-> r]

\* ----------------------------------------------------- config file contents
\* the routes object of a config file whose content is drawn from RouteInputs
VARIABLE input

\* The contents the config file can have. "A", "B", "H" parse; RawRoutes gives
\* the routes object json.Unmarshal produces for them.
FileA == (PathPing :> Rt("GET", 200, 0, "pongA")) @@ (PathOld :> Rt("GET", 0, 10, "old"))
FileB == (PathPing :> Rt("get", 700, -5, "pongB")) @@ (PathNew :> Rt("POST", 201, 40000, "created"))
           @@ (PathBad :> Rt("FETCH", 200, 0, "bad"))
FileH == (PathPing :> Rt("GET", 200, 0, "pongA")) @@ (PathHealth :> Rt("GET", 503, 0, "down"))

\* the routes objects drawn for a config file of content "V": every method,
\* status and delay tried on one key, and two-key objects
InPaths == {PathPing, PathApi}
InMethods == {"GET", "get", "Post", "FETCH", ""}
InStatuses == {-1, 0, 99, 100, 204, 404, 599, 600}
InDelays == {-1, 0, 1, 30000, 30001}
InRoutes == {Rt(m, st, d, "in") : m \in InMethods, st \in InStatuses, d \in InDelays}
PlainRoutes == {Rt(m, 0, 0, "in") : m \in InMethods}
RouteInputs ==
    {<<>>} \cup {p :> r : p \in InPaths, r \in InRoutes}
           \cup {(PathPing :> r) @@ (PathApi :> q) : r \in InRoutes, q \in PlainRoutes}

Parseable == {"A", "B", "H"}
Contents == Parseable \cup {"malformed", "missing"}

RawRoutes(c) == CASE c = "A" -> FileA
                  [] c = "B" -> FileB
                  [] c = "H" -> FileH
                  [] c = "V" -> input

\* ---------------------------------------------------------------- validator
\* strings.ToUpper on the method strings that occur
ToUpper(s) == CASE s = "get" -> "GET"
                [] s = "post" -> "POST"
                [] s = "Post" -> "POST"
                [] OTHER -> s

ValidMethods == {"GET", "POST", "PUT", "DELETE", "PATCH", "HEAD", "OPTIONS"}

\* faulty variant: the method is compared as written
isValidMethod_CaseSensitive(method) == method \in ValidMethods

isValidMethod(method) == ToUpper(method) \in ValidMethods

isValidStatusCode(status) == status >= MinStatus /\ status <= MaxStatus

\* faulty variant: the upper bound is not applied
clampDelay_NoUpper(delay) == IF delay < 0 THEN 0 ELSE delay

clampDelay(delay) == IF delay < 0 THEN 0
                     ELSE IF delay > MaxDelay THEN MaxDelay
                     ELSE delay

\* the body of validateRoutes' loop for one kept route
validateRoute(route) ==
    [route EXCEPT !.status = IF route.status # 0 /\ ~isValidStatusCode(route.status)
                             THEN DefaultStatus ELSE route.status,
                  !.delay = clampDelay(route.delay)]

validateRoutes(routes) ==
    LET kept == {p \in DOMAIN routes : isValidMethod(routes[p].method)}
    IN [ValidRoutes |-> [p \in kept |-> validateRoute(routes[p])],
        SkippedCount |-> Cardinality(DOMAIN routes \ kept)]

\* LoadConfig: the error, or the validation result, for file contents c and
\* symlink resolution res ("orig", "other" resolve; "err" does not)
LoadConfig(c, res) ==
    IF c = "missing" THEN [err |-> "notfound", result |-> validateRoutes(<<>>)]
    ELSE IF res = "err" THEN [err |-> "resolve", result |-> validateRoutes(<<>>)]
    ELSE IF c = "malformed" THEN [err |-> "parse", result |-> validateRoutes(<<>>)]
    ELSE [err |-> "nil", result |-> validateRoutes(RawRoutes(c))]

\* the conversion to server.Route: a field-by-field copy
serverRoutes(result) ==
    [p \in DOMAIN result.ValidRoutes |->
        Rt(result.ValidRoutes[p].method, result.ValidRoutes[p].status,
           result.ValidRoutes[p].delay, result.ValidRoutes[p].response)]

\* ---------------------------------------------------------------- ServeMux
\* A mux maps each registered pattern to its handler [kind, route].
EmptyMux == <<>>

Handler(k, r) == [kind |-> k, route |-> r]

IsSubtree(pat) == Len(pat) >= 1 /\ pat[Len(pat)] = ""

\* a subtree pattern "/a/" matches every path below it
SubtreeMatches(pat, path) ==
    /\ IsSubtree(pat)
    /\ Len(path) >= Len(pat)
    /\ SubSeq(path, 1, Len(pat) - 1) = SubSeq(pat, 1, Len(pat) - 1)

\* ServeMux.HandleFunc panics on an empty pattern and on a pattern that is
\* already registered
HandleFuncPanics(m, pat) == pat = <<>> \/ pat \in DOMAIN m

HandleFunc(m, pat, h) == (pat :> h) @@ m

\* ServeMux dispatch: the exact pattern, else the longest matching subtree
\* pattern, else the mux's own 404 ("notfound": no handler of the server runs)
Match(m, path) ==
    IF path \in DOMAIN m THEN m[path]
    ELSE LET c == {pat \in DOMAIN m : SubtreeMatches(pat, path)}
         IN IF c = {} THEN Handler("notfound", NoRoute)
            ELSE m[CHOOSE pat \in c : \A q \in c : Len(q) <= Len(pat)]

\* the user routes registerRoutes registers: those whose method passes its switch
Registrable(cfg) == {p \in DOMAIN cfg : ToUpper(cfg[p].method) \in ValidMethods}

\* the loop of registerRoutes panics when one of its HandleFunc calls does
UserLoopPanics(m, cfg) == \E p \in Registrable(cfg) : HandleFuncPanics(m, p)

UserLoop(m, cfg) == [p \in Registrable(cfg) |-> Handler("route", cfg[p])] @@ m

\* the table a whole run of registerRoutes builds from cfg
BuildMux(cfg) ==
    HandleFunc(UserLoop(HandleFunc(EmptyMux, PathHealth, Handler("health", NoRoute)), cfg),
               PathRoot, Handler("default", NoRoute))

\* faulty variant: the body guard is wrapped around the rate limiter
Chain_BodyFirst(kind) ==
    CASE kind = "health" -> <<"log", "body", "health">>
      [] kind = "route" -> <<"body", "rate", "log", "route">>
      [] kind = "default" -> <<"body", "rate", "log", "default">>
      [] OTHER -> <<"notfound">>

\* faulty variant: /health is registered behind the rate limiter as well
Chain_HealthLimited(kind) ==
    CASE kind = "health" -> <<"rate", "log", "body", "health">>
      [] kind = "route" -> <<"rate", "body", "log", "route">>
      [] kind = "default" -> <<"rate", "body", "log", "default">>
      [] OTHER -> <<"notfound">>

\* the middleware chains of registerRoutes, outermost stage first
Chain(kind) ==
    CASE kind = "health" -> <<"log", "body", "health">>
      [] kind = "route" -> <<"rate", "body", "log", "route">>
      [] kind = "default" -> <<"rate", "body", "log", "default">>
      [] OTHER -> <<"notfound">>

\* ------------------------------------------------------------- rate.Limiter
NilLimiter == [on |-> FALSE, burst |-> 0, tokens |-> 0, since |-> 0]

\* rate.NewLimiter: a full bucket
NewLimiter(burst) == [on |-> TRUE, burst |-> burst, tokens |-> burst * TicksPerToken, since |-> 0]

\* faulty variant: the limiter is installed whatever the rate
SetRateLimit_Always(rateLimit, burst) == NewLimiter(burst)

\* main: the limiter is installed only for a positive -rate-limit
SetRateLimit(rateLimit, burst) == IF rateLimit > 0 THEN NewLimiter(burst) ELSE NilLimiter

Min(a, b) == IF a < b THEN a ELSE b

\* Limiter.advance: the tokens available now, `since` ticks after the last update
Advance(l) == Min(l.burst * TicksPerToken, l.tokens + l.since)

\* faulty variant: the tokens that accumulate are not capped at the burst
AllowOk_Uncapped(l) == l.tokens + l.since >= TicksPerToken

\* Limiter.Allow admits when a whole token is available
AllowOk(l) == l.burst >= 1 /\ Advance(l) >= TicksPerToken

AllowTake(l) == [l EXCEPT !.tokens = Advance(l) - TicksPerToken, !.since = 0]

\* faulty variant: the request goes on to the next handler although Allow refused it
rateLimitDecision_NoReject(l) == IF ~l.on THEN "pass" ELSE "admit"

\* rateLimitMiddleware: "pass", "admit" (a token is taken) or "reject" (429)
rateLimitDecision(l) ==
    IF ~l.on THEN "pass"
    ELSE IF AllowOk(l) THEN "admit" ELSE "reject"

\* ------------------------------------------------------------------- timers
FreeTimer == [state |-> "free", left |-> 0]

\* faulty variant: the pending timer is not stopped before a new one is started
StopTimer_NoStop(ts, id) == ts

\* Timer.Stop on the watcher's handle (0 is nil)
StopTimer(ts, id) ==
    IF id # 0 /\ ts[id].state = "pending" THEN [ts EXCEPT ![id] = FreeTimer] ELSE ts

FreeIds(ts) == {i \in DOMAIN ts : ts[i].state = "free"}

LowestFree(ts) == CHOOSE i \in FreeIds(ts) : \A j \in FreeIds(ts) : i <= j

\* time.AfterFunc(200ms, ...)
AfterFunc(ts, id) == [ts EXCEPT ![id] = [state |-> "pending", left |-> Window]]

\* faulty variant: the resolved path is not compared with the pinned one
EventArms_NoPin(e, res, pinned) ==
    /\ e.op = "Write"
    /\ e.name = "config"
    /\ res # "err"

\* the watcher's test of one event: does it (re)arm the debounce timer?
EventArms(e, res, pinned) ==
    /\ e.op = "Write"
    /\ e.name = "config"
    /\ res # "err"
    /\ res = pinned

\* -------------------------------------------------------------------- state
VARIABLES
    opts,          \* the flags: [rateLimit, burst]
    proc,          \* "init", "up", "crashed" (unrecovered panic), "exit1"
    file,          \* what reading the config path yields now
    resolved,      \* what EvalSymlinks(configFile) yields now: "orig", "other", "err"
    events,        \* watcher.Events: the queued filesystem events
    watcherPc,     \* watchConfigFile: "off", "starting", "running", "stopped"
    pin,           \* originalResolvedPath
    timers,        \* the runtime's timers: id -> [state, left]
    reloadTimer,   \* the watcher's reloadTimer handle, 0 = nil
    pc,            \* thread -> position; thread 0 runs Server.Start, 1.. run reloadConfig
    loaded,        \* reload thread -> what its LoadConfig returned
    mu,            \* Server.mu: -1 free, else the thread holding it
    config,        \* Server.config
    mux,           \* the ServeMux Server.mux points to
    handlerMux,    \* the ServeMux http.Server.Handler points to
    aliased,       \* TRUE when both point to the same ServeMux
    limiter,       \* Server.limiter
    reqs,          \* connection -> the request being handled
    lastReloaded,  \* history: the route set of the last ReloadConfig that returned
    lastLoadErr,   \* history: the error of the last reload-time LoadConfig
    sinceEvent,    \* history: ticks since the watcher last armed the timer
    owed,          \* history: reload attempts armed and not yet started
    lastEvent,     \* history: what the watcher did with the last event it received
    errors,        \* watcher.Errors: the number of backend errors queued
    sd             \* main after it started the goroutines: [pc, cancelled, left, initiated]

vars == <<opts, proc, file, resolved, events, watcherPc, pin, timers, reloadTimer, pc,
          loaded, mu, config, mux, handlerMux, aliased, limiter, reqs, lastReloaded,
          lastLoadErr, sinceEvent, owed, lastEvent, input, errors, sd>>

envVars == <<file, resolved, events>>
watchVars == <<watcherPc, pin, timers, reloadTimer, sinceEvent, owed, lastEvent>>
tableVars == <<mu, config, mux, handlerMux, aliased>>
histVars == <<lastReloaded, lastLoadErr>>

\* goroutines running registerRoutes: 0 is Server.Start, the others are the
\* debounce-timer callbacks the specification provides for
Threads == DOMAIN pc
Reloaders == DOMAIN loaded
Conns == 1 .. MaxRequests

NoLoad == [err |-> "none", result |-> validateRoutes(<<>>)]
NoReload == [set |-> FALSE, routes |-> <<>>]

IdleReq == [st |-> "idle", method |-> "", path |-> <<>>, body |-> 0,
            h |-> Handler("none", NoRoute), chain |-> <<>>,
            logging |-> FALSE, status |-> 0, rbody |-> "", ctype |-> FALSE,
            logStatus |-> 0, slept |-> FALSE, sleptFor |-> 0, took |-> FALSE]

\* main waits for the server's error or a signal; the context is not cancelled
MainWaiting == [pc |-> "wait", cancelled |-> FALSE, left |-> 0, initiated |-> FALSE]

OptSet == {[rateLimit |-> 0, burst |-> 0]} \cup
          {[rateLimit |-> 1, burst |-> b] : b \in {0, MaxBurst}}

InitN(n, optSet, files, ress, inputs) ==
    /\ opts \in optSet
    /\ input \in inputs
    /\ errors = 0
    /\ sd = MainWaiting
    /\ proc = "init"
    /\ file \in files
    /\ resolved \in ress
    /\ events = <<>>
    /\ watcherPc = "off"
    /\ pin = "none"
    /\ timers = [i \in 1 .. MaxTimers |-> FreeTimer]
    /\ reloadTimer = 0
    /\ pc = [t \in 0 .. n |-> IF t = 0 THEN "off" ELSE "idle"]
    /\ loaded = [t \in 1 .. n |-> NoLoad]
    /\ mu = -1
    /\ config = <<>>
    /\ mux = EmptyMux
    /\ handlerMux = EmptyMux
    /\ aliased = FALSE
    /\ limiter = NilLimiter
    /\ reqs = [i \in Conns |-> IdleReq]
    /\ lastReloaded = NoReload
    /\ lastLoadErr = "none"
    /\ sinceEvent = 0
    /\ owed = 0
    /\ lastEvent = "none"

InitOf(optSet, files, ress, inputs) == InitN(MaxReloaders, optSet, files, ress, inputs)

InitWith(optSet, files, ress) == InitOf(optSet, files, ress, {<<>>})

\* --------------------------------------------------------------------- main
\* main up to the point where the watcher and server goroutines are started
MainStart ==
    /\ proc = "init"
    /\ LET r == LoadConfig(file, resolved)
       IN IF r.err # "nil"
          THEN /\ proc' = "exit1"
               /\ UNCHANGED <<config, limiter, watcherPc, pc>>
          ELSE /\ proc' = "up"
               /\ config' = serverRoutes(r.result)
               /\ limiter' = SetRateLimit(opts.rateLimit, opts.burst)
               /\ watcherPc' = "starting"
               /\ pc' = [pc EXCEPT ![0] = "rr_new"]
    /\ UNCHANGED <<opts, input, errors, sd, envVars, pin, timers, reloadTimer, sinceEvent, owed, lastEvent, loaded, mu,
                   mux, handlerMux, aliased, reqs, histVars>>

\* -------------------------------------------------------------- environment
Event(n, o) == [name |-> n, op |-> o]

\* the directory watch reports events only while the watcher is subscribed
Notify(e) ==
    IF watcherPc = "running"
    THEN Len(events) < MaxEvents /\ events' = Append(events, e)
    ELSE UNCHANGED events

\* an editor writes the config file in place
WriteFile(c) ==
    /\ proc = "up"
    /\ file' = c
    /\ Notify(Event("config", "Write"))
    /\ UNCHANGED <<opts, input, errors, sd, proc, resolved, watchVars, pc, loaded, tableVars, limiter, reqs,
                   histVars>>

\* an editor writes a temporary file and renames it onto the config file
RenameOver(c) ==
    /\ proc = "up"
    /\ watcherPc = "running"
    /\ file' = c
    /\ Notify(Event("config", "Create"))
    /\ UNCHANGED <<opts, input, errors, sd, proc, resolved, watchVars, pc, loaded, tableVars, limiter, reqs,
                   histVars>>

\* another file of the watched directory is written
WriteOther ==
    /\ proc = "up"
    /\ watcherPc = "running"
    /\ Notify(Event("other", "Write"))
    /\ UNCHANGED <<opts, input, errors, sd, proc, file, resolved, watchVars, pc, loaded, tableVars, limiter,
                   reqs, histVars>>

\* the config path starts resolving elsewhere, or stops resolving
SymlinkSwap(res) ==
    /\ proc = "up"
    /\ res # resolved
    /\ resolved' = res
    /\ UNCHANGED <<opts, input, errors, sd, proc, file, events, watchVars, pc, loaded, tableVars, limiter,
                   reqs, histVars>>

\* ------------------------------------------------------------------ watcher
\* watchConfigFile up to its loop: pin the resolved path, subscribe
WatcherStart(backendOk) ==
    /\ proc = "up"
    /\ watcherPc = "starting"
    /\ IF resolved = "err" \/ ~backendOk
       THEN watcherPc' = "stopped" /\ pin' = pin
       ELSE watcherPc' = "running" /\ pin' = resolved
    /\ UNCHANGED <<opts, input, errors, sd, proc, envVars, timers, reloadTimer, sinceEvent, owed, lastEvent, pc, loaded,
                   tableVars, limiter, reqs, histVars>>

\* one iteration of the watcher loop on an event; what it records in lastEvent
\* is left to the specification
WatcherEvent ==
    /\ proc = "up"
    /\ watcherPc = "running"
    /\ events # <<>>
    /\ events' = Tail(events)
    /\ IF EventArms(Head(events), resolved, pin)
       THEN LET stopped == StopTimer(timers, reloadTimer)
            IN /\ FreeIds(stopped) # {}
               /\ timers' = AfterFunc(stopped, LowestFree(stopped))
               /\ reloadTimer' = LowestFree(stopped)
               /\ sinceEvent' = 0
               /\ owed' = 1
       ELSE UNCHANGED <<timers, reloadTimer, sinceEvent, owed>>
    /\ UNCHANGED <<opts, input, errors, sd, proc, file, resolved, watcherPc, pin, pc, loaded, tableVars, limiter,
                   reqs, histVars>>

\* the backend queues an error on watcher.Errors
BackendError ==
    /\ proc = "up"
    /\ watcherPc = "running"
    /\ errors < MaxErrors
    /\ errors' = errors + 1
    /\ UNCHANGED <<opts, input, sd, proc, envVars, watchVars, pc, loaded, tableVars, limiter,
                   reqs, histVars>>

\* one iteration of the watcher loop on an error: it is logged, the loop goes on
WatcherError ==
    /\ proc = "up"
    /\ watcherPc = "running"
    /\ errors > 0
    /\ errors' = errors - 1
    /\ UNCHANGED <<opts, input, sd, proc, envVars, watchVars, pc, loaded, tableVars, limiter,
                   reqs, histVars>>

\* faulty variant: the loop itself waits out the debounce window and runs the
\* reload before it selects again
atSelect_Inline(w, ts, ps) ==
    /\ w = "running"
    /\ \A i \in DOMAIN ts : ts[i].state # "pending"
    /\ \A t \in DOMAIN ps \ {0} : ps[t] = "idle"

\* the watcher loop is back at its select as soon as an iteration has armed the
\* timer: time.AfterFunc returns at once, reloadConfig runs on the timer's
\* goroutine
atSelect(w, ts, ps) == w = "running"

\* one iteration of the watcher loop on ctx.Done(): watchConfigFile returns
WatcherStop ==
    /\ proc = "up"
    /\ atSelect(watcherPc, timers, pc)
    /\ sd.cancelled
    /\ watcherPc' = "stopped"
    /\ UNCHANGED <<opts, input, errors, sd, proc, envVars, pin, timers, reloadTimer, sinceEvent,
                   owed, lastEvent, pc, loaded, tableVars, limiter, reqs, histVars>>

\* ------------------------------------------------------------------- clock
LimiterCap == limiter.burst * TicksPerToken

\* main is waiting on a timeout: the grace window or the shutdown timeout
MainTimed == sd.pc \in {"grace", "drain"}

Tick ==
    /\ proc = "up"
    /\ \A i \in DOMAIN timers : timers[i].state = "pending" => timers[i].left > 0
    /\ MainTimed => sd.left > 0
    /\ \/ \E i \in DOMAIN timers : timers[i].state = "pending"
       \/ limiter.on /\ limiter.since < LimiterCap
       \/ MainTimed
    /\ sd' = IF MainTimed THEN [sd EXCEPT !.left = @ - 1] ELSE sd
    /\ timers' = [i \in DOMAIN timers |->
                    IF timers[i].state = "pending"
                    THEN [timers[i] EXCEPT !.left = @ - 1] ELSE timers[i]]
    /\ limiter' = IF limiter.on
                  THEN [limiter EXCEPT !.since = Min(@ + 1, LimiterCap)] ELSE limiter
    /\ sinceEvent' = IF owed >= 1 THEN Min(sinceEvent + 1, Window + 1) ELSE sinceEvent
    /\ UNCHANGED <<opts, input, errors, proc, envVars, watcherPc, pin, reloadTimer, owed, lastEvent, pc, loaded,
                   tableVars, reqs, histVars>>

\* a debounce timer expires: its callback starts on a goroutine of its own
TimerFire(id, t) ==
    /\ proc = "up"
    /\ timers[id].state = "pending"
    /\ timers[id].left = 0
    /\ pc[t] = "idle"
    /\ \A u \in Reloaders : pc[u] = "idle" => t <= u
    /\ timers' = [timers EXCEPT ![id] = FreeTimer]
    /\ pc' = [pc EXCEPT ![t] = "load"]
    /\ owed' = owed - 1
    /\ sinceEvent' = 0
    /\ UNCHANGED <<opts, input, errors, sd, proc, envVars, watcherPc, pin, reloadTimer, lastEvent, loaded,
                   tableVars, limiter, reqs, histVars>>

\* ------------------------------------------------------------- reloadConfig
\* faulty variant: the error of LoadConfig is ignored
reloadConfigNext_IgnoreErr(r) == "setConfig"

\* reloadConfig after LoadConfig returned r: return, or go on to ReloadConfig
reloadConfigNext(r) == IF r.err # "nil" THEN "idle" ELSE "setConfig"

ReloadLoad(t) ==
    /\ proc = "up"
    /\ pc[t] = "load"
    /\ LET r == LoadConfig(file, resolved)
       IN /\ pc' = [pc EXCEPT ![t] = reloadConfigNext(r)]
          /\ loaded' = [loaded EXCEPT ![t] = IF reloadConfigNext(r) = "idle" THEN NoLoad ELSE r]
          /\ lastLoadErr' = r.err
    /\ UNCHANGED <<opts, input, errors, sd, proc, envVars, watchVars, tableVars, limiter, reqs, lastReloaded>>

\* Server.ReloadConfig, its first critical section: s.config = newConfig
ReloadSetConfig(t) ==
    /\ proc = "up"
    /\ pc[t] = "setConfig"
    /\ mu = -1
    /\ config' = serverRoutes(loaded[t].result)
    /\ pc' = [pc EXCEPT ![t] = "rr_new"]
    /\ UNCHANGED <<opts, input, errors, sd, proc, envVars, watchVars, loaded, mu, mux, handlerMux, aliased,
                   limiter, reqs, histVars>>

\* Server.ReloadConfig after registerRoutes: logRoutes, the onReload callback
ReloadDone(t) ==
    /\ proc = "up"
    /\ pc[t] = "onReload"
    /\ lastReloaded' = [set |-> TRUE, routes |-> serverRoutes(loaded[t].result)]
    /\ pc' = [pc EXCEPT ![t] = "idle"]
    /\ loaded' = [loaded EXCEPT ![t] = NoLoad]
    /\ UNCHANGED <<opts, input, errors, sd, proc, envVars, watchVars, tableVars, limiter, reqs, lastLoadErr>>

\* ----------------------------------------------------------- registerRoutes
\* a write to the ServeMux s.mux points to is a write to the served one when
\* both are the same object
Served(m) == IF aliased THEN m ELSE handlerMux

\* s.mu.Lock(); s.mux = http.NewServeMux()
RegNew(t) ==
    /\ proc = "up"
    /\ pc[t] = "rr_new"
    /\ mu = -1
    /\ mu' = t
    /\ mux' = EmptyMux
    /\ aliased' = FALSE
    /\ pc' = [pc EXCEPT ![t] = "rr_health"]
    /\ UNCHANGED <<opts, input, errors, sd, proc, envVars, watchVars, loaded, config, handlerMux, limiter, reqs,
                   histVars>>

RegHealth(t) ==
    /\ proc = "up"
    /\ pc[t] = "rr_health"
    /\ mux' = HandleFunc(mux, PathHealth, Handler("health", NoRoute))
    /\ handlerMux' = Served(mux')
    /\ pc' = [pc EXCEPT ![t] = "rr_user"]
    /\ UNCHANGED <<opts, input, errors, sd, proc, envVars, watchVars, loaded, mu, config, aliased, limiter, reqs,
                   histVars>>

\* the loop over s.config
RegUser(t) ==
    /\ proc = "up"
    /\ pc[t] = "rr_user"
    /\ IF UserLoopPanics(mux, config)
       THEN proc' = "crashed" /\ UNCHANGED <<mux, handlerMux, pc>>
       ELSE /\ mux' = UserLoop(mux, config)
            /\ handlerMux' = Served(mux')
            /\ pc' = [pc EXCEPT ![t] = "rr_default"]
            /\ proc' = proc
    /\ UNCHANGED <<opts, input, errors, sd, envVars, watchVars, loaded, mu, config, aliased, limiter, reqs,
                   histVars>>

\* the default route "/", then the deferred s.mu.Unlock()
RegDefault(t) ==
    /\ proc = "up"
    /\ pc[t] = "rr_default"
    /\ IF HandleFuncPanics(mux, PathRoot)
       THEN proc' = "crashed" /\ UNCHANGED <<mux, handlerMux, pc, mu>>
       ELSE /\ mux' = HandleFunc(mux, PathRoot, Handler("default", NoRoute))
            /\ handlerMux' = Served(mux')
            /\ mu' = -1
            /\ pc' = [pc EXCEPT ![t] = IF t = 0 THEN "bind" ELSE "onReload"]
            /\ proc' = proc
    /\ UNCHANGED <<opts, input, errors, sd, envVars, watchVars, loaded, config, aliased, limiter, reqs, histVars>>

\* Server.Start after registerRoutes: Handler: s.mux, then ListenAndServe
ServerBind ==
    /\ proc = "up"
    /\ pc[0] = "bind"
    /\ handlerMux' = mux
    /\ aliased' = TRUE
    /\ pc' = [pc EXCEPT ![0] = "listen"]
    /\ UNCHANGED <<opts, input, errors, sd, proc, envVars, watchVars, loaded, mu, config, mux, limiter, reqs,
                   histVars>>

\* ListenAndServe returns an error instead of serving
ListenFail ==
    /\ proc = "up"
    /\ pc[0] = "bind"
    /\ pc' = [pc EXCEPT ![0] = "failed"]
    /\ UNCHANGED <<opts, input, errors, sd, proc, envVars, watchVars, loaded, tableVars, limiter,
                   reqs, histVars>>

\* ----------------------------------------------------------- main, shutdown
\* main receives the server's error from serverDone: log.Fatalf
MainFatal ==
    /\ proc = "up"
    /\ sd.pc = "wait"
    /\ pc[0] = "failed"
    /\ proc' = "exit1"
    /\ UNCHANGED <<opts, input, errors, sd, envVars, watchVars, pc, loaded, tableVars, limiter,
                   reqs, histVars>>

\* main receives SIGINT or SIGTERM: cancel(), then the wait for the watcher
Signal ==
    /\ proc = "up"
    /\ sd.pc = "wait"
    /\ sd' = [pc |-> "grace", cancelled |-> TRUE, left |-> GraceTicks, initiated |-> FALSE]
    /\ UNCHANGED <<opts, input, errors, proc, envVars, watchVars, pc, loaded, tableVars, limiter,
                   reqs, histVars>>

\* faulty variant: main does not wait for the watcher
graceOver_NoWait(w, left) == TRUE

\* main's second select: watcherDone is closed, or 2 s have passed
graceOver(w, left) == w = "stopped" \/ left = 0

\* faulty variant: the error of Shutdown is logged and the process exits 0
exitCode_Always0(err) == "exit0"

\* main after Shutdown returned: os.Exit(1) on an error, else return
exitCode(err) == IF err THEN "exit1" ELSE "exit0"

\* Server.Shutdown has an http.Server to shut down once Start has built it
HasHttpServer == pc[0] \in {"listen", "failed"}

\* main calls mockServer.Shutdown with a 10 s timeout: the listener is closed;
\* without an http.Server yet, Shutdown returns nil at once
MainShutdown ==
    /\ proc = "up"
    /\ sd.pc = "grace"
    /\ graceOver(watcherPc, sd.left)
    /\ IF HasHttpServer
       THEN /\ sd' = [sd EXCEPT !.pc = "drain", !.left = DrainTicks, !.initiated = TRUE]
            /\ pc' = [pc EXCEPT ![0] = IF @ = "listen" THEN "closed" ELSE @]
            /\ proc' = proc
       ELSE /\ sd' = [sd EXCEPT !.pc = "done", !.initiated = TRUE]
            /\ proc' = exitCode(FALSE)
            /\ pc' = pc
    /\ UNCHANGED <<opts, input, errors, envVars, watchVars, loaded, tableVars, limiter, reqs,
                   histVars>>

\* http.Server.Shutdown returns nil once no connection is active
ShutdownDone ==
    /\ proc = "up"
    /\ sd.pc = "drain"
    /\ \A i \in Conns : reqs[i].st = "idle"
    /\ sd' = [sd EXCEPT !.pc = "done"]
    /\ proc' = exitCode(FALSE)
    /\ UNCHANGED <<opts, input, errors, envVars, watchVars, pc, loaded, tableVars, limiter, reqs,
                   histVars>>

\* http.Server.Shutdown returns the context's error: requests are still running
ShutdownTimeout ==
    /\ proc = "up"
    /\ sd.pc = "drain"
    /\ sd.left = 0
    /\ \E i \in Conns : reqs[i].st # "idle"
    /\ sd' = [sd EXCEPT !.pc = "done"]
    /\ proc' = exitCode(TRUE)
    /\ UNCHANGED <<opts, input, errors, envVars, watchVars, pc, loaded, tableVars, limiter, reqs,
                   histVars>>

\* --------------------------------------------------------- request pipeline
\* loggingMiddleware wraps the writer as soon as the chain reaches it
EnterLog(r) ==
    IF r.chain # <<>> /\ Head(r.chain) = "log"
    THEN [r EXCEPT !.logging = TRUE, !.logStatus = DefaultStatus, !.chain = Tail(@)]
    ELSE r

\* the next stage of the chain is called
Proceed(r) == EnterLog([r EXCEPT !.chain = Tail(@)])

\* w.WriteHeader(code) and the body, ending the request's handling; ct tells
\* whether the Content-Type header was set before the status was committed
Reply(r, code, body, ct) ==
    [r EXCEPT !.st = "done", !.chain = <<>>, !.status = code, !.rbody = body, !.ctype = ct,
              !.logStatus = IF r.logging THEN code ELSE @]

\* the connection's goroutine dispatches the request through the served mux
Accept(i, m, p, b) ==
    /\ proc = "up"
    /\ pc[0] = "listen"
    /\ reqs[i].st = "idle"
    /\ LET h == Match(handlerMux, p)
       IN reqs' = [reqs EXCEPT ![i] =
                     EnterLog([IdleReq EXCEPT !.st = "run", !.method = m, !.path = p,
                                              !.body = b, !.h = h,
                                              !.chain = Chain(h.kind)])]
    /\ UNCHANGED <<opts, input, errors, sd, proc, envVars, watchVars, pc, loaded, tableVars, limiter, histVars>>

\* faulty variant: no other handler runs while one is in its delay
AtStage_OneAtATime(i, stage) ==
    /\ proc = "up"
    /\ reqs[i].st = "run"
    /\ reqs[i].chain # <<>>
    /\ Head(reqs[i].chain) = stage
    /\ \A j \in Conns \ {i} :
          ~(reqs[j].st = "run" /\ reqs[j].chain = <<"route">> /\ reqs[j].h.route.delay > 0)

AtStage(i, stage) ==
    /\ proc = "up"
    /\ reqs[i].st = "run"
    /\ reqs[i].chain # <<>>
    /\ Head(reqs[i].chain) = stage

RateStage(i) ==
    /\ AtStage(i, "rate")
    /\ LET d == rateLimitDecision(limiter)
       IN /\ limiter' = IF d = "admit" THEN AllowTake(limiter) ELSE limiter
          /\ reqs' = [reqs EXCEPT ![i] =
                        IF d = "reject" THEN Reply(@, 429, "rate_limited", TRUE)
                        ELSE Proceed([@ EXCEPT !.took = (d = "admit")])]
    /\ UNCHANGED <<opts, input, errors, sd, proc, envVars, watchVars, pc, loaded, tableVars, histVars>>

\* faulty variant: POST is missing from the methods whose body is read
bodyTooLarge_NoPost(method, size) == method \in {"PUT", "PATCH"} /\ size > BodyLimit

\* io.ReadAll on the MaxBytesReader fails for the methods whose body is read
bodyTooLarge(method, size) == method \in {"POST", "PUT", "PATCH"} /\ size > BodyLimit

BodyStage(i) ==
    /\ AtStage(i, "body")
    /\ reqs' = [reqs EXCEPT ![i] =
                  IF bodyTooLarge(@.method, @.body)
                  THEN Reply(@, 413, "request body too large", TRUE)
                  ELSE Proceed(@)]
    /\ UNCHANGED <<opts, input, errors, sd, proc, envVars, watchVars, pc, loaded, tableVars, limiter, histVars>>

\* createHandler: time.Sleep for a positive delay
Sleep(i) ==
    /\ AtStage(i, "route")
    /\ reqs[i].h.route.delay > 0
    /\ ~reqs[i].slept
    /\ reqs' = [reqs EXCEPT ![i].slept = TRUE, ![i].sleptFor = reqs[i].h.route.delay]
    /\ UNCHANGED <<opts, input, errors, sd, proc, envVars, watchVars, pc, loaded, tableVars, limiter, histVars>>

\* createHandler: the status of the route, 200 when it has none
routeStatus(route) == IF route.status = 0 THEN DefaultStatus ELSE route.status

\* w.WriteHeader(code) followed by the write of the body: net/http sends a 1xx
\* code other than 101 as an interim response, and the body then commits 200
committedStatus(code) == IF code >= 100 /\ code <= 199 /\ code # 101 THEN 200 ELSE code

\* net/http refuses a body after a committed 1xx, 204 or 304 status: the Write
\* returns http.ErrBodyNotAllowed
bodyAllowedForStatus(code) == ~(code >= 100 /\ code <= 199) /\ code # 204 /\ code # 304

\* json.NewEncoder(w).Encode(route.Response) returns an error: the encoded value
\* (never empty, and always encodable since it was decoded from JSON) could not
\* be written after WriteHeader(code)
encodeFails(code) == ~bodyAllowedForStatus(committedStatus(code))

\* the code loggingMiddleware's wrapper holds when createHandler returns: on an
\* Encode error http.Error calls WriteHeader(500) on the wrapper
statusAfterEncode(code) == IF encodeFails(code) THEN 500 ELSE code

\* faulty variant: the handler answers the default 404 when the request's method
\* is not the route's
Respond_MethodChecked(i) ==
    /\ AtStage(i, "route")
    /\ reqs[i].h.route.delay > 0 => reqs[i].slept
    /\ reqs' = [reqs EXCEPT ![i] =
                  IF ToUpper(@.h.route.method) = @.method
                  THEN Reply(@, routeStatus(@.h.route), @.h.route.response, TRUE)
                  ELSE Reply(@, 404, "Route not found", TRUE)]
    /\ UNCHANGED <<opts, input, errors, sd, proc, envVars, watchVars, pc, loaded, tableVars, limiter, histVars>>

\* the wrapper of loggingMiddleware records the code given to WriteHeader; the
\* status on the wire is the one committed by the first WriteHeader
Respond(i) ==
    /\ AtStage(i, "route")
    /\ reqs[i].h.route.delay > 0 => reqs[i].slept
    /\ LET code == routeStatus(reqs[i].h.route)
       IN reqs' = [reqs EXCEPT ![i] =
                     [Reply(@, code, IF encodeFails(code) THEN "" ELSE @.h.route.response, TRUE)
                        EXCEPT !.status = committedStatus(code),
                               !.logStatus = statusAfterEncode(code)]]
    /\ UNCHANGED <<opts, input, errors, sd, proc, envVars, watchVars, pc, loaded, tableVars, limiter, histVars>>

healthHandler(i) ==
    /\ AtStage(i, "health")
    /\ reqs' = [reqs EXCEPT ![i] = Reply(@, 200, "ok", TRUE)]
    /\ UNCHANGED <<opts, input, errors, sd, proc, envVars, watchVars, pc, loaded, tableVars, limiter, histVars>>

\* defaultHandler commits the 404 before it sets the Content-Type header
defaultHandler(i) ==
    /\ AtStage(i, "default")
    /\ reqs' = [reqs EXCEPT ![i] = Reply(@, 404, "Route not found", FALSE)]
    /\ UNCHANGED <<opts, input, errors, sd, proc, envVars, watchVars, pc, loaded, tableVars, limiter, histVars>>

\* no pattern of the served mux matches: the mux's own plain-text 404
MuxNotFound(i) ==
    /\ AtStage(i, "notfound")
    /\ reqs' = [reqs EXCEPT ![i] = Reply(@, 404, "404 page not found", FALSE)]
    /\ UNCHANGED <<opts, input, errors, sd, proc, envVars, watchVars, pc, loaded, tableVars, limiter, histVars>>

\* the handler chain has returned (loggingMiddleware, if entered, prints its
\* line now) and the connection is free again
Return(i) ==
    /\ proc = "up"
    /\ reqs[i].st = "done"
    /\ reqs' = [reqs EXCEPT ![i] = IdleReq]
    /\ UNCHANGED <<opts, input, errors, sd, proc, envVars, watchVars, pc, loaded, tableVars, limiter, histVars>>

\* ------------------------------------------------------------ specification
Startup ==
    \/ MainStart
    \/ \E ok \in BOOLEAN : WatcherStart(ok)
    \/ RegNew(0) \/ RegHealth(0) \/ RegUser(0) \/ RegDefault(0)
    \/ ServerBind

\* history: what the watcher is about to do with the event at the head of its queue
EventVerdict ==
    LET e == Head(events)
    IN IF e.op # "Write" \/ e.name # "config" THEN "ignored"
       ELSE IF resolved = "err" THEN "resolveErr"
       ELSE IF resolved # pin THEN "mismatch"
       ELSE IF StopTimer(timers, reloadTimer) = timers THEN "armed"
       ELSE "rearmed"

WatcherEventPlain == WatcherEvent /\ UNCHANGED lastEvent

WatcherEventTraced == WatcherEvent /\ lastEvent' = EventVerdict

Timers ==
    \/ Tick
    \/ \E id \in 1 .. MaxTimers, t \in Reloaders : TimerFire(id, t)

Reload ==
    \E t \in Reloaders :
        \/ ReloadLoad(t) \/ ReloadSetConfig(t) \/ ReloadDone(t)
        \/ RegNew(t) \/ RegHealth(t) \/ RegUser(t) \/ RegDefault(t)

Pipeline(i) ==
    \/ RateStage(i) \/ BodyStage(i) \/ Sleep(i) \/ Respond(i)
    \/ healthHandler(i) \/ defaultHandler(i) \/ Return(i)

ReqMethods == {"GET", "POST"}
ReqBodies == {0, BodyLimit, BodyLimit + 1}

Requests(cs, ms, ps, bs) == \E i \in cs : \E m \in ms, p \in ps, b \in bs : Accept(i, m, p, b)

\* The reload pipeline and the served table: the config file is rewritten in
\* place or stops resolving; rate limiting is off; GET requests without a body.
Next ==
    \/ Startup
    \/ WatcherEventPlain
    \/ Timers
    \/ Reload
    \/ \E c \in Contents : WriteFile(c)
    \/ \E res \in {"orig", "err"} : SymlinkSwap(res)
    \/ Requests(1 .. MaxReloadRequests, {"GET"}, {PathPing, PathOld, PathHealth}, {0})
    \/ \E i \in Conns : Pipeline(i) \/ MuxNotFound(i)

Init == InitWith({[rateLimit |-> 0, burst |-> 0]}, Contents, {"orig", "err"})

Spec == Init /\ [][Next]_vars

\* The watcher: every kind of event of the watched directory, the config path
\* resolving elsewhere, the debounce clock; no requests.
NextWatch ==
    \/ Startup
    \/ WatcherEventTraced
    \/ Timers
    \/ Reload
    \/ \E c \in {"A", "B"} : WriteFile(c) \/ RenameOver(c)
    \/ WriteOther
    \/ \E res \in {"orig", "other", "err"} : SymlinkSwap(res)

InitWatch == InitWith({[rateLimit |-> 0, burst |-> 0]}, {"A"}, {"orig"})

SpecWatch == InitWatch /\ [][NextWatch]_vars

\* The request pipeline under load: a fixed route table, every flag setting,
\* concurrent requests with and without oversized bodies, the limiter's clock.
NextLimit ==
    \/ Startup
    \/ Tick
    \/ Requests(Conns, ReqMethods, {PathPing, PathNew, PathHealth, PathMissing}, ReqBodies)
    \/ \E i \in Conns : Pipeline(i)

InitLimit == InitWith(OptSet, {"B"}, {"orig"})

SpecLimit == InitLimit /\ [][NextLimit]_vars

\* Validation and dispatch: the config file holds any of the routes objects of
\* RouteInputs; GET requests to configured keys, to paths below them, to an
\* unknown path and to /health.
NextRoutes ==
    \/ Startup
    \/ Requests({1}, {"GET"},
                {PathPing, PathPingSub, PathApi, PathApiSub, PathMissing, PathHealth}, {0})
    \/ \E i \in Conns : Pipeline(i)

InitRoutes == InitOf({[rateLimit |-> 0, burst |-> 0]}, {"V"}, {"orig"}, RouteInputs)

SpecRoutes == InitRoutes /\ [][NextRoutes]_vars

\* The life of the process: startup with a good, malformed or missing config,
\* a listener that fails, backend errors of the watcher, a signal, the grace
\* window, the drain of running requests. The clock and main always advance.
NextShut ==
    \/ Startup
    \/ ListenFail \/ MainFatal
    \/ BackendError \/ WatcherError \/ WatcherStop
    \/ Signal \/ MainShutdown \/ ShutdownDone \/ ShutdownTimeout
    \/ Tick
    \/ Requests({1}, {"GET"}, {PathOld, PathMissing, PathHealth}, {0})
    \/ \E i \in Conns : Pipeline(i)

InitShut == InitWith({[rateLimit |-> 0, burst |-> 0]}, {"A", "malformed", "missing"},
                     {"orig", "err"})

SpecShut == InitShut /\ [][NextShut]_vars /\ WF_vars(Tick) /\ WF_vars(MainShutdown)

\* Delayed requests next to other requests and a reload: the config file is
\* rewritten in place, two connections ask for the delayed route /old, for
\* /health and for an unknown path.
NextDelay ==
    \/ Startup
    \/ WatcherEventPlain
    \/ Timers
    \/ Reload
    \/ WriteFile("A")
    \/ Requests(Conns, {"GET"}, {PathOld, PathHealth, PathMissing}, {0})
    \/ \E i \in Conns : Pipeline(i) \/ MuxNotFound(i)

InitDelay == InitWith({[rateLimit |-> 0, burst |-> 0]}, {"A"}, {"orig"})

SpecDelay == InitDelay /\ [][NextDelay]_vars

\* Cancellation while the watcher is busy: the config file is rewritten in
\* place, a signal arrives with events queued, a debounce timer pending or a
\* reload running; main waits for the watcher and shuts the server down. The
\* watcher goroutine is scheduled, and a select with a ready ctx.Done() case
\* picks it sooner or later.
NextStop ==
    \/ Startup
    \/ WatcherEventPlain
    \/ Timers
    \/ Reload
    \/ WriteFile("B")
    \/ Signal \/ WatcherStop \/ MainShutdown \/ ShutdownDone

InitStop == InitWith({[rateLimit |-> 0, burst |-> 0]}, {"A"}, {"orig"})

SpecStop == InitStop /\ [][NextStop]_vars
                     /\ WF_vars(\E ok \in BOOLEAN : WatcherStart(ok))
                     /\ WF_vars(WatcherStop)

\* Overlapping reloads: the watched config file is rewritten in place again and
\* again, and a second debounce-timer callback may start while the first is
\* still in reloadConfig.
WriteWatched(c) == watcherPc = "running" /\ WriteFile(c)

NextOverlap ==
    \/ Startup
    \/ WatcherEventPlain
    \/ Timers
    \/ Reload
    \/ \E c \in {"A", "B"} : WriteWatched(c)

InitOverlap == InitN(MaxOverlap, {[rateLimit |-> 0, burst |-> 0]}, {"A"}, {"orig"}, {<<>>})

SpecOverlap == InitOverlap /\ [][NextOverlap]_vars

\* The limiter across reloads: -rate-limit 1 with a burst of MaxBurst, the config
\* file is rewritten in place and reloaded while two connections ask for a user
\* delayed route, an unknown path and /health.
NextBucket ==
    \/ Startup
    \/ WatcherEventPlain
    \/ Timers
    \/ Reload
    \/ WriteFile("B")
    \/ Requests(Conns, {"GET"}, {PathOld, PathMissing, PathHealth}, {0})
    \/ \E i \in Conns : Pipeline(i) \/ MuxNotFound(i)

InitBucket == InitWith({[rateLimit |-> 1, burst |-> MaxBurst]}, {"A"}, {"orig"})

SpecBucket == InitBucket /\ [][NextBucket]_vars

\* ================================================================== claims
InReloadConfig(t) == pc[t] \in {"setConfig", "rr_new", "rr_health", "rr_user", "rr_default", "onReload"}

\* the validated route sets the config file can give
ValidatedSets == {serverRoutes(validateRoutes(RawRoutes(c))) : c \in Parseable}

Accepted(i) == reqs[i].st = "idle" /\ reqs'[i].st # "idle"

\* the handlers a request for path p may meet once a reload has returned: that of
\* the last route set reloaded, or that of a reload in progress
ReloadedHandlers(p) ==
    {Match(BuildMux(lastReloaded.routes), p)} \cup
    {Match(BuildMux(serverRoutes(loaded[t].result)), p) : t \in {u \in Reloaders : InReloadConfig(u)}}

\* C1: once ReloadConfig has returned with route set N, every request accepted
\* afterwards is dispatched against N (added path: its route; removed path: the
\* default 404; changed path: the new definition).
C1_ReloadTakesEffect ==
    [][\A i \in Conns :
         (Accepted(i) /\ lastReloaded.set) => reqs'[i].h \in ReloadedHandlers(reqs'[i].path)]_vars

\* C2: every request is dispatched against the complete table of one validated
\* configuration, never against a partially registered table.
C2_WholeTableOnly ==
    \A i \in Conns :
        reqs[i].st # "idle" =>
            \E cfg \in ValidatedSets : reqs[i].h = Match(BuildMux(cfg), reqs[i].path)

C4_ReloadNeverTerminates ==
    [][(proc = "up" /\ pc[0] = "listen") => proc' = "up"]_vars

\* C5: /health is always answered 200 {"status":"ok"} by the health handler,
\* without a token, a delay or a status override, and the server stays up when
\* the configuration itself has a route keyed /health.
C5_HealthAlwaysOk ==
    /\ PathHealth \in DOMAIN config => proc # "crashed"
    /\ \A i \in Conns :
         (reqs[i].st # "idle" /\ reqs[i].path = PathHealth) =>
            /\ reqs[i].h.kind = "health"
            /\ ~reqs[i].took /\ ~reqs[i].slept
            /\ reqs[i].st = "done" => reqs[i].status = 200 /\ reqs[i].rbody = "ok"

\* C8: with -rate-limit 0 no request is ever answered 429, whatever the number of
\* requests and reloads.
C8_NoLimitNo429 ==
    opts.rateLimit = 0 => \A i \in Conns : reqs[i].status # 429

C8_Witness ==
    /\ opts.rateLimit = 0
    /\ lastReloaded.set
    /\ \E i \in Conns : reqs[i].st = "done" /\ reqs[i].h.kind = "route" /\ reqs[i].status = 200

\* the watcher takes a write event of the config file off its queue while the
\* config path resolves, but not to the pinned path
MismatchProcessed ==
    /\ events # <<>>
    /\ events' = Tail(events)
    /\ Head(events) = Event("config", "Write")
    /\ resolved \notin {pin, "err"}

\* C6: a write event processed while the resolved path differs from the pinned
\* one arms no timer, starts no reload and leaves the route table alone; the
\* pinned path, once set, never changes.
C6_MismatchNoReload ==
    [][/\ MismatchProcessed =>
            UNCHANGED <<timers, reloadTimer, owed, pc, loaded, config, mux, handlerMux, aliased>>
       /\ pin # "none" => pin' = pin]_vars

C6_Witness ==
    /\ lastEvent = "mismatch"
    /\ pin = "orig" /\ resolved = "other"
    /\ file = "B"
    /\ config = serverRoutes(validateRoutes(FileA))
    /\ pc[0] = "listen"
    /\ \A t \in Reloaders : pc[t] = "idle"
    /\ owed = 0

PendingTimers == {i \in DOMAIN timers : timers[i].state = "pending"}

AttemptStarts == \E t \in Reloaders : pc[t] = "idle" /\ pc'[t] = "load"

\* C7: the write events of a burst (each received less than the window after
\* the one before) lead to exactly one reload attempt, one window after the last
\* of them: at most one timer is pending, it is never overdue, and an attempt
\* starts only when the window has passed since the last event and uses the
\* burst up.
C7_OneReloadPerBurst ==
    /\ [](/\ owed \in {0, 1}
          /\ Cardinality(PendingTimers) = owed
          /\ owed = 1 => sinceEvent <= Window)
    /\ [][AttemptStarts => (owed = 1 /\ owed' = 0 /\ sinceEvent = Window)]_vars

C7_Witness ==
    /\ lastEvent = "rearmed"
    /\ owed = 0
    /\ PendingTimers = {}
    /\ \E t \in Reloaders : pc[t] = "load"

RateStep(i) ==
    /\ reqs[i].st = "run"
    /\ reqs[i].chain # <<>>
    /\ Head(reqs[i].chain) = "rate"
    /\ reqs'[i] # reqs[i]

\* C9: with rate R > 0 and burst B >= 1 the bucket holds between 0 and B tokens;
\* an admission check admits exactly when a whole token is available and then
\* takes exactly one, and otherwise answers 429 rate_limited and takes none (so a
\* full bucket admits B of B+1 requests that come with no refill in between);
\* an empty bucket admits nothing before 1/R seconds have passed and exactly one
\* request once they have.
C9_TokenBucket ==
    /\ []((limiter.on /\ limiter.burst >= 1) =>
            /\ limiter.tokens \in 0 .. LimiterCap
            /\ Advance(limiter) \in 0 .. LimiterCap
            /\ (limiter.tokens = 0 /\ limiter.since < TicksPerToken) => ~AllowOk(limiter)
            /\ (limiter.tokens = 0 /\ limiter.since = TicksPerToken) =>
                  (AllowOk(limiter) /\ ~AllowOk(AllowTake(limiter))))
    /\ [][\A i \in Conns :
            (RateStep(i) /\ limiter.on /\ limiter.burst >= 1) =>
               IF Advance(limiter) >= TicksPerToken
               THEN /\ reqs'[i].took
                    /\ reqs'[i].status = 0
                    /\ Advance(limiter') = Advance(limiter) - TicksPerToken
               ELSE /\ ~reqs'[i].took
                    /\ reqs'[i].status = 429
                    /\ reqs'[i].rbody = "rate_limited"
                    /\ limiter' = limiter]_vars

C9_Witness ==
    /\ limiter.on /\ limiter.burst >= 1
    /\ limiter.tokens = 0
    /\ \E i, j \in Conns : i # j /\ reqs[i].took /\ reqs[j].status = 429

\* the request was admitted by the rate-limit stage
Admitted(r) == r.status # 429 /\ (r.chain = <<>> \/ Head(r.chain) # "rate")

\* C10: a POST, PUT or PATCH request to a user route with a body over 1 MiB,
\* once admitted by the limiter, never reaches the route's handler (no delay, no
\* configured status or body) and is answered 413 request body too large.
C10_OversizeBodyRejected ==
    \A i \in Conns :
        LET r == reqs[i]
        IN (/\ r.st # "idle"
            /\ r.h.kind = "route"
            /\ r.method \in {"POST", "PUT", "PATCH"}
            /\ r.body > BodyLimit
            /\ Admitted(r)) =>
              /\ ~r.slept
              /\ ~r.logging
              /\ r.chain # <<>> => Head(r.chain) = "body"
              /\ r.st = "done" => (r.status = 413 /\ r.rbody = "request body too large")

C10_Witness ==
    \E i \in Conns :
        /\ reqs[i].st = "done"
        /\ reqs[i].h.kind = "route"
        /\ reqs[i].h.route.delay > 0
        /\ reqs[i].h.route.status = 201
        /\ reqs[i].method = "POST"
        /\ reqs[i].body = BodyLimit + 1
        /\ reqs[i].took
        /\ reqs[i].status = 413

\* C11: dispatch is by exact path equality: a request whose path is a key of the
\* table is answered by that key's route, and every other path except /health
\* (also one that only has a key as a prefix) by the default handler with 404
\* Route not found.
C11_ExactPathOnly ==
    \A i \in Conns :
        LET r == reqs[i]
        IN (r.st # "idle" /\ r.path # PathHealth) =>
              IF r.path \in DOMAIN config
              THEN r.h = Handler("route", config[r.path])
              ELSE /\ r.h.kind = "default"
                   /\ r.st = "done" => (r.status = 404 /\ r.rbody = "Route not found")

\* C12: every request handled produces exactly one log line carrying the status
\* of its response: when its handling is over it has passed through the logging
\* middleware, which recorded the status sent (429, 413, 404 and /health too).
C12_EveryRequestLogged ==
    \A i \in Conns :
        reqs[i].st = "done" => (reqs[i].logging /\ reqs[i].logStatus = reqs[i].status)

\* C13: on a signal the watcher's context is cancelled first; Server.Shutdown is
\* called only once the watcher has stopped or the grace window has passed, and
\* it is always called after a signal, also when the watcher never stops.
C13_CancelThenShutdown ==
    /\ [](sd.initiated => sd.cancelled)
    /\ [][(~sd.cancelled /\ sd'.cancelled) => ~sd'.initiated]_vars
    /\ [][(~sd.initiated /\ sd'.initiated) =>
             (sd.cancelled /\ (watcherPc = "stopped" \/ sd.left = 0))]_vars
    /\ (sd.cancelled ~> sd.initiated)

C13_Witness ==
    /\ sd.initiated
    /\ sd.pc = "drain"
    /\ watcherPc = "running"
    /\ pc[0] = "closed"

\* the process exits with a code in this step
Exits == proc \in {"init", "up"} /\ proc' \in {"exit0", "exit1"}

\* C14: the exit code is 1 when the startup load fails (and then neither the
\* listener nor the watcher was started), 1 when main receives the listener's
\* error, 1 when Shutdown fails because requests outlive its timeout, and 0 when
\* the signalled shutdown completes in time.
C14_ExitCodes ==
    /\ [][(proc = "init" /\ proc' # "init") =>
             IF LoadConfig(file, resolved).err # "nil"
             THEN proc' = "exit1" /\ watcherPc' = "off" /\ pc'[0] = "off"
             ELSE proc' = "up"]_vars
    /\ [][(Exits /\ proc = "up") =>
             CASE sd.pc = "wait" -> (pc[0] = "failed" /\ proc' = "exit1")
               [] sd.pc = "grace" -> (sd.cancelled /\ proc' = "exit0")
               [] sd.pc = "drain" ->
                    (/\ sd.cancelled
                     /\ proc' = IF \A i \in Conns : reqs[i].st = "idle" THEN "exit0" ELSE "exit1"
                     /\ proc' = "exit1" => sd.left = 0)
               [] OTHER -> FALSE]_vars
    /\ [](proc \in {"exit0", "exit1"} => (watcherPc = "off" <=> pc[0] = "off"))

C14_Witness ==
    /\ proc = "exit1"
    /\ sd.pc = "done"
    /\ sd.left = 0
    /\ \E i \in Conns : reqs[i].st = "run" /\ reqs[i].h.kind = "route"

\* the methods of InMethods that, compared without regard to case, are one of
\* GET, POST, PUT, DELETE, PATCH, HEAD, OPTIONS
AllowedIgnoringCase == {"GET", "get", "Post"}

\* C15: validateRoutes keeps exactly the routes whose method is an allowed one
\* compared case-insensitively and counts the others as skipped, so kept plus
\* skipped is the size of the input; whether a route is kept depends on that
\* route alone. The table the server starts with has exactly the kept keys.
C15_ValidateRoutesPartition ==
    proc = "up" =>
        LET vr == validateRoutes(input)
            kept == {p \in DOMAIN input : input[p].method \in AllowedIgnoringCase}
        IN /\ DOMAIN vr.ValidRoutes = kept
           /\ vr.SkippedCount = Cardinality(DOMAIN input \ kept)
           /\ Cardinality(DOMAIN vr.ValidRoutes) + vr.SkippedCount = Cardinality(DOMAIN input)
           /\ DOMAIN config = kept
           /\ \A p \in DOMAIN input :
                 (p \in DOMAIN vr.ValidRoutes) <=>
                    (p \in DOMAIN validateRoutes(p :> input[p]).ValidRoutes)

C15_Witness ==
    /\ proc = "up"
    /\ pc[0] = "listen"
    /\ DOMAIN input = {PathPing, PathApi}
    /\ input[PathPing].method = "get"
    /\ input[PathApi].method = "FETCH"
    /\ DOMAIN config = {PathPing}

\* C16: for a kept route the status sent is the configured one when it is in
\* [100,599] and 200 otherwise.
C16_EffectiveStatus ==
    \A i \in Conns :
        LET r == reqs[i]
        IN (r.st = "done" /\ r.h.kind = "route" /\ r.path \in DOMAIN input) =>
              r.status = IF input[r.path].status >= 100 /\ input[r.path].status <= 599
                         THEN input[r.path].status ELSE 200

\* max(0, min(30000, d))
Max0Min30000(d) == IF d < 0 THEN 0 ELSE IF d > 30000 THEN 30000 ELSE d

\* C17: the delay stored in the table and applied by the handler for a kept
\* route configured with delay d is max(0, min(30000, d)) ms: the handler sleeps
\* exactly when that is positive, and for that long; whether a route is kept
\* does not depend on its delay.
C17_DelayClamped ==
    /\ proc = "up" =>
          \A p \in DOMAIN input :
              /\ p \in DOMAIN config <=> input[p].method \in AllowedIgnoringCase
              /\ p \in DOMAIN config => config[p].delay = Max0Min30000(input[p].delay)
    /\ \A i \in Conns :
          LET r == reqs[i]
          IN (r.st # "idle" /\ r.h.kind = "route" /\ r.path \in DOMAIN input) =>
                /\ r.h.route.delay = Max0Min30000(input[r.path].delay)
                /\ r.slept => r.sleptFor = Max0Min30000(input[r.path].delay)
                /\ r.st = "done" => (r.slept <=> Max0Min30000(input[r.path].delay) > 0)

C17_Witness ==
    \E i \in Conns :
        /\ reqs[i].st = "done"
        /\ reqs[i].h.kind = "route"
        /\ reqs[i].path \in DOMAIN input
        /\ input[reqs[i].path].delay = 30001
        /\ reqs[i].slept
        /\ reqs[i].sleptFor = 30000

\* the handler of connection i is at the delay of its route
InDelay(i) == AtStage(i, "route") /\ reqs[i].h.route.delay > 0

\* C18: while a request is in its delay, every other connection can accept a
\* request and take the next step of the one it handles, and the watcher and a
\* reload can take their next steps (a reload waits for Server.mu only when
\* another registerRoutes holds it): the delayed request blocks nothing.
C18_DelayBlocksNothing ==
    \A i \in Conns :
        InDelay(i) =>
            /\ \A j \in Conns \ {i} :
                  /\ (reqs[j].st = "idle" /\ pc[0] = "listen") =>
                        ENABLED Accept(j, "GET", PathHealth, 0)
                  /\ reqs[j].st = "run" => ENABLED (Pipeline(j) \/ MuxNotFound(j))
                  /\ reqs[j].st = "done" => ENABLED Return(j)
            /\ \A t \in Reloaders :
                  /\ pc[t] = "load" => ENABLED ReloadLoad(t)
                  /\ (pc[t] \in {"setConfig", "rr_new"} /\ mu = -1) =>
                        ENABLED (ReloadSetConfig(t) \/ RegNew(t))
                  /\ pc[t] \in {"rr_health", "rr_user", "rr_default"} =>
                        ENABLED (RegHealth(t) \/ RegUser(t) \/ RegDefault(t))
                  /\ pc[t] = "onReload" => ENABLED ReloadDone(t)
            /\ (watcherPc = "running" /\ events # <<>>) => ENABLED WatcherEvent

C18_Witness ==
    \E i, j \in Conns :
        /\ i # j
        /\ InDelay(i)
        /\ reqs[i].slept
        /\ reqs[j].st = "done"
        /\ reqs[j].h.kind = "health"
        /\ mu \in Reloaders

\* C19: when the config file is replaced by rename-over, the watcher, on the
\* create event of the watched filename, arms the debounce timer, so that a
\* reload attempt follows.
C19_RenameOverReloads ==
    [][(/\ events # <<>>
        /\ events' = Tail(events)
        /\ Head(events) = Event("config", "Create")
        /\ resolved = pin) =>
          (/\ owed' = 1
           /\ reloadTimer' # 0
           /\ timers'[reloadTimer'].state = "pending")]_vars

\* C20: on a failure of the notification backend (the watcher cannot be set up,
\* or an error arrives on its error channel) the watcher stops and the server
\* keeps serving the table it had.
C20_BackendFailureStopsWatcher ==
    /\ [][(watcherPc = "starting" /\ watcherPc' = "stopped") =>
             (proc' = "up" /\ UNCHANGED <<config, mux, handlerMux, pc>>)]_vars
    /\ [][errors' < errors =>
             (/\ watcherPc' = "stopped"
              /\ proc' = "up"
              /\ UNCHANGED <<config, mux, handlerMux, pc>>)]_vars

\* C21: the symlink check guards the moment of loading. A reload attempt whose
\* load step runs while the config path resolves to something other than the
\* pinned path is rejected: it returns without calling ReloadConfig and the
\* route table is untouched.
C21_PinCheckedAtLoad ==
    [][\A t \in Reloaders :
          (pc[t] = "load" /\ pc'[t] # "load" /\ resolved # pin)
              => (pc'[t] = "idle" /\ UNCHANGED <<config, mux, handlerMux>>)]_vars

\* C22: when the watcher stops because its context was cancelled, a pending
\* debounce timer is cancelled with it: once the watcher has returned no reload
\* attempt starts and the route table is not replaced again.
C22_StopCancelsTimer ==
    [][(watcherPc = "stopped" /\ sd.cancelled) => (~AttemptStarts /\ config' = config)]_vars

\* C23: once the shutdown context is cancelled the watcher loop returns, whatever
\* is queued, pending or running: while the process lives the loop can always
\* take its ctx.Done() case, and it ends up stopped.
C23_WatcherObservesCancel ==
    /\ [](proc = "up" /\ sd.cancelled /\ watcherPc = "running" => ENABLED WatcherStop)
    /\ (sd.cancelled ~> (watcherPc = "stopped" \/ proc # "up"))

\* the watcher returned on cancellation with a debounce timer still pending or
\* a reload still running
C23_Witness ==
    /\ proc = "up"
    /\ sd.cancelled
    /\ watcherPc = "stopped"
    /\ pin # "none"
    /\ \/ \E i \in DOMAIN timers : timers[i].state = "pending"
       \/ \E t \in Reloaders : pc[t] # "idle"

\* C24: for a matched user route the stages run in the order rate-limit check,
\* body-size guard, configured delay, Content-Type header, status header, JSON
\* body. The limiter decides before anything else has run, and a request it
\* rejects has not had its body read and does not wait the delay; the body guard
\* runs after the limiter took its token, and a request it rejects does not wait
\* the delay; the delay comes before any header; the handler answers after the
\* delay, with the Content-Type set before the status.
C24_StageOrder ==
    [][\A i \in Conns :
          LET r == reqs[i]
              q == reqs'[i]
          IN (r.st = "run" /\ r.h.kind = "route" /\ q # r) =>
                /\ Head(r.chain) = "rate" =>
                      /\ r.chain = <<"rate", "body", "log", "route">>
                      /\ ~r.took /\ ~r.slept /\ ~r.logging /\ r.status = 0
                      /\ q.status = 429 => (q.st = "done" /\ ~q.took /\ ~q.slept /\ q.ctype)
                /\ Head(r.chain) = "body" =>
                      /\ r.chain = <<"body", "log", "route">>
                      /\ limiter.on => r.took
                      /\ ~r.slept /\ r.status = 0
                      /\ q.status = 413 => (q.st = "done" /\ q.took = r.took /\ ~q.slept /\ q.ctype)
                /\ Head(r.chain) = "route" =>
                      /\ r.chain = <<"route">>
                      /\ limiter.on => r.took
                      /\ ~bodyTooLarge(r.method, r.body)
                      /\ q.st = "run" => (q.slept /\ ~r.slept /\ q.status = 0 /\ ~q.ctype)
                      /\ q.st = "done" =>
                            /\ r.h.route.delay > 0 => r.slept
                            /\ q.ctype
                            /\ q.status = committedStatus(routeStatus(r.h.route))
                            /\ q.rbody = r.h.route.response]_vars

\* two oversized POSTs to the delayed route with one token in the bucket: one is
\* stopped by the body guard after taking the token, the other by the limiter
C24_Witness ==
    \E i, j \in Conns :
        /\ i # j
        /\ reqs[i].st = "done" /\ reqs[j].st = "done"
        /\ reqs[i].h.kind = "route" /\ reqs[i].h.route.delay > 0
        /\ reqs[j].h = reqs[i].h
        /\ reqs[i].body > BodyLimit /\ reqs[j].body > BodyLimit
        /\ reqs[i].method = "POST" /\ reqs[j].method = "POST"
        /\ reqs[i].status = 413 /\ reqs[i].took
        /\ reqs[j].status = 429 /\ ~reqs[j].took

\* C25: the watcher follows Idle -> Armed -> Reloading -> Idle: at most one
\* debounce timer is pending and at most one reload (load, validate,
\* ReloadConfig) is executing at any time.
C25_OneReloadAtATime ==
    /\ Cardinality(PendingTimers) <= 1
    /\ Cardinality({t \in Reloaders : pc[t] # "idle"}) <= 1

\* the watcher and the debounce timers are at rest and no reload is running
Quiescent ==
    /\ proc = "up"
    /\ watcherPc = "running"
    /\ events = <<>>
    /\ PendingTimers = {}
    /\ \A t \in Reloaders : pc[t] = "idle"

\* C26: once the writes have stopped and every reload they triggered has
\* completed, the server's route configuration is the validation of the file's
\* final contents.
C26_LastWriteWins ==
    (Quiescent /\ lastReloaded.set) => config = serverRoutes(validateRoutes(RawRoutes(file)))

\* C27: every route of the validated table has as its method one of the seven
\* uppercase names GET, POST, PUT, DELETE, PATCH, HEAD, OPTIONS: a route
\* configured with "get" is stored with the method "GET".
C27_MethodStoredUppercase ==
    proc = "up" =>
        /\ \A p \in DOMAIN config : config[p].method \in ValidMethods
        /\ \A p \in DOMAIN input :
              input[p].method = "get" => (p \in DOMAIN config /\ config[p].method = "GET")

\* the route's handler ran for the request and its Encode returned an error
EncodeFailed(r) ==
    /\ r.st = "done"
    /\ r.h.kind = "route"
    /\ r.logging
    /\ encodeFails(routeStatus(r.h.route))

\* C28: if encoding a route's response to JSON fails, the client receives 500
\* and not the configured status, and the logged status is the status the client
\* received.
C28_EncodeFailureIs500 ==
    \A i \in Conns :
        EncodeFailed(reqs[i]) => (reqs[i].status = 500 /\ reqs[i].logStatus = reqs[i].status)

\* C29: with rate limiting enabled there is one token bucket for the whole
\* server, created at startup and never reset or replaced by a reload. Every
\* request to a user route or to an unmatched path passes the same limiter and
\* an admission takes one whole token from it; the bucket otherwise changes only
\* by the refill of the clock, up to its capacity; /health neither takes a token
\* nor is refused by the limiter.
C29_OneBucket ==
    /\ [](proc = "up" =>
            /\ limiter.on /\ limiter.burst = opts.burst
            /\ Advance(limiter) \in 0 .. LimiterCap
            /\ \A i \in Conns :
                  LET r == reqs[i]
                  IN /\ (r.h.kind \in {"route", "default"} /\ r.logging) => r.took
                     /\ (r.st # "idle" /\ r.path = PathHealth) =>
                           (~r.took /\ r.status # 429))
    /\ [][(proc = "up" /\ limiter' # limiter) =>
            \/ \E i \in Conns :
                  /\ RateStep(i)
                  /\ reqs'[i].took
                  /\ Advance(limiter) >= TicksPerToken
                  /\ Advance(limiter') = Advance(limiter) - TicksPerToken
            \/ /\ reqs' = reqs /\ pc' = pc /\ config' = config
               /\ limiter' = [limiter EXCEPT !.since = @ + 1]]_vars

\* after a reload has returned the bucket is still the one emptied before: a
\* request to the user route holds the token, a request to an unknown path is
\* refused, a request to /health was answered
C29_Witness ==
    /\ lastReloaded.set
    /\ limiter.tokens = 0 /\ limiter.since = 0
    /\ \E i, j \in Conns :
          /\ reqs[i].path = PathOld /\ reqs[i].took /\ reqs[i].st = "done"
          /\ reqs[j].path = PathMissing /\ reqs[j].status = 429

C32_ContentTypeBeforeStatus ==
    \A i \in Conns :
        (reqs[i].st = "done" /\ reqs[i].h.kind \in {"route", "health", "default"}) => reqs[i].ctype

\* C33: ReloadConfig replaces Server.config and rebuilds Server.mux as one step
\* with respect to the server's lock: once the startup registration is over,
\* whenever s.mu is not held the table registered in s.mux is the one built from
\* s.config.
C33_ConfigAndMuxInStep ==
    (proc = "up" /\ mu = -1 /\ pc[0] \in {"bind", "listen"}) => mux = BuildMux(config)

====
